---- MODULE Spec2Model ----
(***************************************************************************)
(* Model of typeprofile/demo.js: the inspector session driver              *)
(* (postAsync, CollectProfile), the annotator (Escape, MarkUpCode) and the *)
(* request handler (Server).                                               *)
(*                                                                         *)
(* A JavaScript string is a sequence of one-character strings.             *)
(***************************************************************************)
EXTENDS Integers, Sequences, FiniteSets, TLC

----------------------------------------------------------------------------
(* Bounds of the model. *)

\* longest enumerated source text
MaxLen == 3
\* most samples in a flattened profile handed to MarkUpCode
MaxSamples == 2
\* most console notifications delivered on one session
MaxNotify == 2
\* most script profiles in one Profiler.takeTypeProfile result
MaxHarvest == 2
\* longest enumerated source text handed to MarkUpCode
MaxSourceLen == 2

----------------------------------------------------------------------------
(* Strings *)

CR == "\r"
LF == "\n"

\* all sequences over S of length 0..n
SeqsUpTo(S, n) == UNION {[1..k -> S] : k \in 0..n}

\* String.prototype.substring(start, end): both indices are clamped to
\* 0..length and swapped when start > end.
Clamp(i, n) == IF i < 0 THEN 0 ELSE IF i > n THEN n ELSE i

\* a substring that takes the character at the end index too
SubstringInclusive(s, start, end) ==
    LET a == Clamp(start, Len(s))
        b == Clamp(end, Len(s))
        lo == IF a <= b THEN a ELSE b
        hi == IF a <= b THEN b ELSE a
    IN  SubSeq(s, lo + 1, Clamp(hi + 1, Len(s)))

Substring(s, start, end) ==
    LET a == Clamp(start, Len(s))
        b == Clamp(end, Len(s))
        lo == IF a <= b THEN a ELSE b
        hi == IF a <= b THEN b ELSE a
    IN  SubSeq(s, lo + 1, hi)

\* string.replace(new RegExp(pattern, "g"), replacement) for a pattern
\* without metacharacters: leftmost non-overlapping matches, one pass.
RECURSIVE ReplaceAll(_, _, _)
ReplaceAll(s, pattern, replacement) ==
    IF Len(s) < Len(pattern) \/ Len(s) = 0 THEN s
    ELSE IF SubSeq(s, 1, Len(pattern)) = pattern
         THEN replacement \o
              ReplaceAll(SubSeq(s, Len(pattern) + 1, Len(s)), pattern, replacement)
         ELSE <<Head(s)>> \o ReplaceAll(Tail(s), pattern, replacement)

----------------------------------------------------------------------------
(* Escape *)

\* the table with the pair of "&" moved to the end
SubstitutionsAmpersandLast ==
    << << <<" ">>,     <<"&", "n", "b", "s", "p", ";">> >>,
       << <<"<">>,     <<"&", "l", "t", ";">> >>,
       << <<">">>,     <<"&", "g", "t", ";">> >>,
       << <<CR, LF>>,  <<"<", "b", "r", "/", ">">> >>,
       << <<LF>>,      <<"<", "b", "r", "/", ">">> >>,
       << <<"\"">>,    <<"&", "q", "u", "o", "t", ";">> >>,
       << <<"&">>,     <<"&", "a", "m", "p", ";">> >> >>

\* the table with the pair of the bare line feed ahead of the CR+LF pair
SubstitutionsLfFirst ==
    << << <<"&">>,     <<"&", "a", "m", "p", ";">> >>,
       << <<" ">>,     <<"&", "n", "b", "s", "p", ";">> >>,
       << <<"<">>,     <<"&", "l", "t", ";">> >>,
       << <<">">>,     <<"&", "g", "t", ";">> >>,
       << <<LF>>,      <<"<", "b", "r", "/", ">">> >>,
       << <<CR, LF>>,  <<"<", "b", "r", "/", ">">> >>,
       << <<"\"">>,    <<"&", "q", "u", "o", "t", ";">> >> >>

\* the (pattern, replacement) table of Escape, in the order of the source
Substitutions ==
    << << <<"&">>,     <<"&", "a", "m", "p", ";">> >>,
       << <<" ">>,     <<"&", "n", "b", "s", "p", ";">> >>,
       << <<"<">>,     <<"&", "l", "t", ";">> >>,
       << <<">">>,     <<"&", "g", "t", ";">> >>,
       << <<CR, LF>>,  <<"<", "b", "r", "/", ">">> >>,
       << <<LF>>,      <<"<", "b", "r", "/", ">">> >>,
       << <<"\"">>,    <<"&", "q", "u", "o", "t", ";">> >> >>

\* Array.prototype.reduce over the first n pairs of the table
RECURSIVE EscapeReduce(_, _)
EscapeReduce(string, n) ==
    IF n = 0 THEN string
    ELSE ReplaceAll(EscapeReduce(string, n - 1),
                    Substitutions[n][1], Substitutions[n][2])

Escape(string) == EscapeReduce(string, Len(Substitutions))

----------------------------------------------------------------------------
(* MarkUpCode *)

\* profile.reduce((result, next) => result = result.concat(next.entries), [])
RECURSIVE FlattenEntries(_)
FlattenEntries(profile) ==
    IF profile = <<>> THEN <<>>
    ELSE FlattenEntries(SubSeq(profile, 1, Len(profile) - 1))
         \o profile[Len(profile)].entries

\* a comparator that orders equal offsets behind each other
CompareOffsetsTiesBehind(a, b) == a.offset - b.offset + 1

\* a comparator that sorts by descending offset
CompareOffsetsDescending(a, b) == b.offset - a.offset

\* the comparator handed to Array.prototype.sort
CompareOffsets(a, b) == a.offset - b.offset

\* Array.prototype.sort is stable (ECMAScript 2019): an element is placed
\* after every element the comparator does not order behind it.
RECURSIVE InsertSorted(_, _)
InsertSorted(sorted, e) ==
    IF sorted = <<>> THEN <<e>>
    ELSE IF CompareOffsets(sorted[Len(sorted)], e) > 0
         THEN InsertSorted(SubSeq(sorted, 1, Len(sorted) - 1), e)
              \o <<sorted[Len(sorted)]>>
         ELSE sorted \o <<e>>

RECURSIVE SortEntries(_)
SortEntries(entries) ==
    IF entries = <<>> THEN <<>>
    ELSE InsertSorted(SortEntries(SubSeq(entries, 1, Len(entries) - 1)),
                      entries[Len(entries)])

SpanOpen ==
    <<"<", "s", "p", "a", "n", " ", "s", "t", "y", "l", "e", "=", "\"",
      "b", "a", "c", "k", "g", "r", "o", "u", "n", "d", "-", "c", "o", "l",
      "o", "r", ":", " ", "r", "g", "b", "(", "2", "5", "5", ",", " ", "0",
      ",", " ", "0", ")", ";", " ", "c", "o", "l", "o", "r", ":", " ", "w",
      "h", "i", "t", "e", "\"">>

SpanClose == <<"<", "/", "s", "p", "a", "n", ">">>

\* CopySourceUpTo that leaves the cursor where it was
CopySourceKeepCursor(w, src, up_to) ==
    [result |-> w.result \o Escape(Substring(src, w.cursor, up_to)),
     cursor |-> w.cursor]

\* CopySourceUpTo that copies the source text unescaped
CopySourceUnescaped(w, src, up_to) ==
    [result |-> w.result \o Substring(src, w.cursor, up_to),
     cursor |-> up_to]

\* The walk of MarkUpCode keeps the two locals result and cursor; w is the
\* record [result, cursor] of their values.
CopySourceUpTo(w, src, up_to) ==
    [result |-> w.result \o Escape(Substring(src, w.cursor, up_to)),
     cursor |-> up_to]

PrintType(w, type) ==
    [w EXCEPT !.result = @ \o SpanOpen \o <<">">> \o type.name
                           \o SpanClose \o <<" ">>]

\* for (let type of entry.types) PrintType(type), over the first n types
RECURSIVE PrintTypes(_, _, _)
PrintTypes(w, types, n) ==
    IF n = 0 THEN w
    ELSE PrintType(PrintTypes(w, types, n - 1), types[n])

\* an iteration that prints the types ahead of the source in front of them
MarkEntryPrintFirst(w, source, entry) ==
    CopySourceUpTo(PrintTypes(w, entry.types, Len(entry.types)),
                   source, entry.offset)

\* one iteration of the loop over the sorted entries
MarkEntry(w, source, entry) ==
    PrintTypes(CopySourceUpTo(w, source, entry.offset),
               entry.types, Len(entry.types))

\* the loop over the first n sorted entries
RECURSIVE MarkEntries(_, _, _, _)
MarkEntries(w, source, entries, n) ==
    IF n = 0 THEN w
    ELSE MarkEntry(MarkEntries(w, source, entries, n - 1), source, entries[n])

MarkUpCode(profile, source) ==
    LET entries == SortEntries(FlattenEntries(profile))
        w0 == [result |-> <<>>, cursor |-> 0]
        w1 == MarkEntries(w0, source, entries, Len(entries))
    IN  CopySourceUpTo(w1, source, Len(source)).result

----------------------------------------------------------------------------
(* JavaScript values that travel as errors, rejection reasons and replies.  *)
(* Every value is a record [cls, name, msg]: cls tells the kind, name is    *)
(* the error class name of an Error object, msg its message or, for a       *)
(* string, its characters.                                                  *)

JsNull == [cls |-> "null", name |-> <<>>, msg |-> <<>>]
JsUndefined == [cls |-> "undefined", name |-> <<>>, msg |-> <<>>]
JsString(chars) == [cls |-> "string", name |-> <<>>, msg |-> chars]
JsError(name, message) == [cls |-> "error", name |-> name, msg |-> message]
\* result.exceptionDetails of a reply whose exception has this description
ExceptionDetails(description) ==
    [cls |-> "details", name |-> <<>>, msg |-> description]
\* "nothing was thrown"
NoThrow == [cls |-> "none", name |-> <<>>, msg |-> <<>>]

\* e.toString(): a string is itself, an Error is "<name>: <message>"
JsToString(e) ==
    IF e.cls = "error" THEN e.name \o <<":", " ">> \o e.msg ELSE e.msg

ErrorName == <<"E", "r", "r", "o", "r">>
TypeErrorName == <<"T", "y", "p", "e">> \o ErrorName

\* what the inspector can hand back: a remote error of a command, the
\* description of an exception of the script, a fault of connect() or
\* disconnect()
RemoteError == JsError(ErrorName, <<"R">>)
ThrownDescription == <<"B", "<">>
ConnectFault == JsError(ErrorName, <<"C">>)
DisconnectFault == JsError(ErrorName, <<"D">>)
\* reading .value of args[0] when args is empty
ValueOfUndefined == JsError(TypeErrorName, <<"v">>)

----------------------------------------------------------------------------
(* The protocol sequence of CollectProfile *)

Commands ==
    << "Runtime.enable", "Profiler.enable", "Profiler.startTypeProfile",
       "Runtime.compileScript", "Runtime.runScript",
       "HeapProfiler.collectGarbage", "Profiler.takeTypeProfile",
       "Profiler.stopTypeProfile", "Profiler.disable", "Runtime.disable" >>

NumCommands == Len(Commands)

\* script identifiers the runtime hands out
ScriptIds == {"7", "8"}

\* the script texts a request can carry
Scripts == { <<"a", LF>> }

\* type samples of the profiles the runtime can hand back
SampleA == [offset |-> 0, types |-> << [name |-> <<"n">>] >>]
SampleB == [offset |-> 1, types |-> << [name |-> <<"s">>] >>]

ScriptProfiles ==
    { [scriptId |-> "7", entries |-> <<SampleA>>],
      [scriptId |-> "8", entries |-> <<SampleA>>],
      [scriptId |-> "7", entries |-> <<SampleB>>] }

\* console notifications: message.params.type and message.params.args
ConsoleMessages ==
    { [type |-> <<"l", "o", "g">>, args |-> << [value |-> <<"x">>] >>],
      [type |-> <<"l", "o", "g">>, args |-> << >>] }

\* the reply to a command as the callback of session.post receives it
OkReply(k) ==
    IF Commands[k] = "Runtime.compileScript"
    THEN {[error |-> JsNull, exceptionDetails |-> JsUndefined,
           scriptId |-> id, result |-> <<>>] : id \in ScriptIds}
    ELSE IF Commands[k] = "Profiler.takeTypeProfile"
    THEN {[error |-> JsNull, exceptionDetails |-> JsUndefined,
           scriptId |-> "", result |-> r] :
             r \in SeqsUpTo(ScriptProfiles, MaxHarvest)}
    ELSE {[error |-> JsNull, exceptionDetails |-> JsUndefined,
           scriptId |-> "", result |-> <<>>]}

FailReply ==
    { [error |-> RemoteError, exceptionDetails |-> JsUndefined,
       scriptId |-> "", result |-> <<>>],
      [error |-> JsNull, exceptionDetails |-> ExceptionDetails(ThrownDescription),
       scriptId |-> "", result |-> <<>>] }

Replies(k) == OkReply(k) \cup FailReply

AllReplies == UNION {Replies(k) : k \in 1..NumCommands}

\* postAsync: how the callback settles the promise of one command
PostAsyncSettle(reply) ==
    IF reply.error # JsNull
    THEN [state |-> "rejected", reason |-> reply.error]
    ELSE IF reply.exceptionDetails # JsUndefined
    THEN [state |-> "rejected", reason |-> JsString(reply.exceptionDetails.msg)]
    ELSE [state |-> "resolved", reason |-> NoThrow]

\* a comparison that holds of every script profile
LooseEqualsAlways(a, b) == TRUE

\* x.scriptId == scriptId on two strings
LooseEquals(a, b) == a = b

\* result.filter(x => x.scriptId == scriptId)
RECURSIVE Filter(_, _)
Filter(result, id) ==
    IF result = <<>> THEN <<>>
    ELSE LET rest == Filter(SubSeq(result, 1, Len(result) - 1), id)
             x == result[Len(result)]
         IN  IF LooseEquals(x.scriptId, id) THEN rest \o <<x>> ELSE rest

\* unshift instead of push
OnConsoleUnshift(msgs, message) == <<message>> \o msgs

\* message => messages.push(message)
OnConsole(msgs, message) == Append(msgs, message)

----------------------------------------------------------------------------
(* State *)

VARIABLES
    \* Server (one POST request)
    spc,          \* "idle", "collect" (awaiting CollectProfile), "done"
    script,       \* post.script
    result,       \* the annotated text substituted for RESULT
    message_log,  \* the text substituted for CONSOLE
    caught,       \* the catch block of Server ran
    \* CollectProfile
    pc,           \* "idle", "connect", "post", "await", "finally", "return",
                  \* "settled"
    step,         \* index in Commands of the command being posted or awaited
    pending,      \* commands posted whose callback has not run yet
    connected,    \* session.connect() succeeded, session.disconnect() not yet called
    listening,    \* the Runtime.consoleAPICalled listener is registered
    messages,     \* let messages
    profile,      \* let profile: [defined, val]
    scriptId,     \* let { scriptId }
    takeResult,   \* let { result } of Profiler.takeTypeProfile
    thrown,       \* the exception in flight through try/finally, or NoThrow
    outcome,      \* how the promise of CollectProfile settled
    disconnects,  \* number of calls of session.disconnect()
    \* history
    trace,        \* the protocol steps in the order they were issued
    arrivals,     \* console notifications delivered, with the phase of arrival
    failure,      \* the first failure of connect() or of a command:
                  \* [failed, reason, at], at = Len(trace) when it failed
    \* Escape applied to one string
    epc, string, escaped,
    \* MarkUpCode applied to one profile and source
    mpc, source, in_profile, entries, next_entry, walk,
    copies,       \* history: the (cursor, up_to) of every CopySourceUpTo call
    \* a second request, suspended while this one runs
    cur,          \* which of the two requests the variables above belong to
    parked        \* the variables of the other request, as it left them

serverVars == <<spc, script, result, message_log, caught>>
driverVars == <<pc, step, pending, connected, listening, messages, profile,
                scriptId, takeResult, thrown, outcome, disconnects>>
historyVars == <<trace, arrivals, failure>>
escapeVars == <<epc, string, escaped>>
markVars == <<mpc, source, in_profile, entries, next_entry, walk, copies>>
requestVars == <<cur, parked>>
vars == <<serverVars, driverVars, historyVars, escapeVars, markVars,
          requestVars>>

NoOutcome ==
    [state |-> "pending", reason |-> NoThrow,
     profile |-> [defined |-> FALSE, val |-> <<>>], messages |-> <<>>]
NoFailure == [failed |-> FALSE, reason |-> NoThrow, at |-> 0]

\* the variables of a request that has not arrived
IdleRequest ==
    [spc |-> "idle", script |-> <<>>, result |-> <<>>, message_log |-> <<>>,
     caught |-> FALSE, pc |-> "idle", step |-> 0, pending |-> <<>>,
     connected |-> FALSE, listening |-> FALSE, messages |-> <<>>,
     profile |-> [defined |-> FALSE, val |-> <<>>], scriptId |-> "",
     takeResult |-> <<>>, thrown |-> NoThrow, outcome |-> NoOutcome,
     disconnects |-> 0, trace |-> <<>>, arrivals |-> <<>>,
     failure |-> NoFailure]

ServerInit ==
    /\ spc = "idle"
    /\ script = <<>>
    /\ result = <<>>
    /\ message_log = <<>>
    /\ caught = FALSE
    /\ cur = 1
    /\ parked = IdleRequest

DriverInit ==
    /\ pc = "idle"
    /\ step = 0
    /\ pending = <<>>
    /\ connected = FALSE
    /\ listening = FALSE
    /\ messages = <<>>
    /\ profile = [defined |-> FALSE, val |-> <<>>]
    /\ scriptId = ""
    /\ takeResult = <<>>
    /\ thrown = NoThrow
    /\ outcome = NoOutcome
    /\ disconnects = 0
    /\ trace = <<>>
    /\ arrivals = <<>>
    /\ failure = NoFailure

EscapeIdle ==
    /\ epc = "idle"
    /\ string = <<>>
    /\ escaped = <<>>

MarkIdle ==
    /\ mpc = "idle"
    /\ source = <<>>
    /\ in_profile = <<>>
    /\ entries = <<>>
    /\ next_entry = 0
    /\ walk = [result |-> <<>>, cursor |-> 0]
    /\ copies = <<>>

----------------------------------------------------------------------------
(* CollectProfile and Server *)

\* Server, POST branch up to the call of CollectProfile; CollectProfile up
\* to the try block.
Request(body) ==
    /\ spc = "idle"
    /\ spc' = "collect"
    /\ script' = body
    /\ pc' = "connect"
    /\ messages' = <<>>
    /\ profile' = [defined |-> FALSE, val |-> <<>>]
    /\ UNCHANGED <<requestVars, result, message_log, caught, step, pending,
                   connected, listening, scriptId, takeResult, thrown,
                   outcome, disconnects, historyVars, escapeVars, markVars>>

\* a try block without the finally: the exception leaves the function
PcAfterThrowNoFinally == "return"

\* a throw that leaves the function suspended where it was
PcAfterThrowSuspended == "await"

\* where control goes when the try block throws: the finally block
PcAfterThrow == "finally"

\* session.connect(), which returns or throws
Connect(fault) ==
    /\ pc = "connect"
    /\ trace' = Append(trace, "connect")
    /\ IF fault
       THEN /\ thrown' = ConnectFault
            /\ pc' = PcAfterThrow
            /\ failure' = [failed |-> TRUE, reason |-> ConnectFault,
                           at |-> Len(trace) + 1]
            /\ UNCHANGED <<connected, step>>
       ELSE /\ connected' = TRUE
            /\ step' = 1
            /\ pc' = "post"
            /\ UNCHANGED <<thrown, failure>>
    /\ UNCHANGED <<requestVars, serverVars, pending, listening, messages, profile,
                   scriptId, takeResult, outcome, disconnects, arrivals,
                   escapeVars, markVars>>

\* postAsync without the await: the next command is posted at once
PostNoAwait ==
    /\ pc = "post"
    /\ pending' = Append(pending, step)
    /\ trace' = Append(trace, Commands[step])
    /\ IF step < NumCommands
       THEN /\ step' = step + 1
            /\ pc' = "post"
       ELSE /\ step' = step
            /\ pc' = "await"
    /\ UNCHANGED <<requestVars, serverVars, connected, listening, messages, profile,
                   scriptId, takeResult, thrown, outcome, disconnects,
                   arrivals, failure, escapeVars, markVars>>

\* session.postAsync(Commands[step]): session.post sends the command and the
\* await suspends CollectProfile until the callback has run.
Post ==
    /\ pc = "post"
    /\ pending' = Append(pending, step)
    /\ trace' = Append(trace, Commands[step])
    /\ pc' = "await"
    /\ UNCHANGED <<requestVars, serverVars, step, connected, listening, messages, profile,
                   scriptId, takeResult, thrown, outcome, disconnects,
                   arrivals, failure, escapeVars, markVars>>

\* The statements of CollectProfile between the await of command k, once it
\* resolved with reply, and the next await.
Continue(k, reply) ==
    /\ IF Commands[k] = "Runtime.compileScript"
       THEN /\ scriptId' = reply.scriptId
            /\ listening' = TRUE
            /\ trace' = Append(trace, "on")
       ELSE UNCHANGED <<scriptId, listening, trace>>
    /\ IF Commands[k] = "Profiler.takeTypeProfile"
       THEN /\ takeResult' = reply.result
            /\ profile' = [defined |-> TRUE,
                           val |-> Filter(reply.result, scriptId)]
       ELSE UNCHANGED <<takeResult, profile>>
    /\ IF k < NumCommands
       THEN /\ step' = k + 1
            /\ pc' = "post"
       ELSE /\ step' = k
            /\ pc' = "finally"
    /\ UNCHANGED <<thrown, failure>>

\* The callback of session.post runs with the reply to the oldest pending
\* command; the promise of postAsync settles and CollectProfile resumes.
Reply(reply) ==
    /\ pending # <<>>
    /\ reply \in Replies(Head(pending))
    /\ pending' = Tail(pending)
    /\ LET settled == PostAsyncSettle(reply)
       IN  IF settled.state = "resolved"
           THEN Continue(Head(pending), reply)
           ELSE /\ thrown' = settled.reason
                /\ pc' = PcAfterThrow
                /\ failure' = IF failure.failed THEN failure
                              ELSE [failed |-> TRUE, reason |-> settled.reason,
                                    at |-> Len(trace)]
                /\ UNCHANGED <<step, scriptId, listening, trace, takeResult,
                               profile>>
    /\ UNCHANGED <<requestVars, serverVars, connected, messages, outcome, disconnects,
                   arrivals, escapeVars, markVars>>

\* when a notification arrives: before the listener was registered
\* ("early"), while Runtime.runScript is awaited ("run"), or while a later
\* command is awaited ("late")
ArrivalPhase ==
    IF \A i \in 1..Len(trace) : trace[i] # "on" THEN "early"
    ELSE IF Commands[Head(pending)] = "Runtime.runScript" THEN "run"
    ELSE "late"

\* The inspector delivers a Runtime.consoleAPICalled notification on the
\* session while CollectProfile is suspended; a session without a listener
\* drops it.
Notify(message) ==
    /\ connected
    /\ pc = "await"
    /\ pending # <<>>
    /\ Len(arrivals) < MaxNotify
    /\ arrivals' = Append(arrivals, [message |-> message, phase |-> ArrivalPhase])
    /\ messages' = IF listening THEN OnConsole(messages, message) ELSE messages
    /\ UNCHANGED <<requestVars, serverVars, pc, step, pending, connected, listening,
                   profile, scriptId, takeResult, thrown, outcome,
                   disconnects, trace, failure, escapeVars, markVars>>

\* a disconnect that a timeout also runs while a command is awaited
DisconnectOnTimeout(fault) ==
    /\ pc \in {"finally", "await"}
    /\ disconnects' = disconnects + 1
    /\ trace' = Append(trace, "disconnect")
    /\ connected' = FALSE
    /\ listening' = FALSE
    /\ thrown' = IF fault THEN DisconnectFault ELSE thrown
    /\ pc' = "return"
    /\ UNCHANGED <<requestVars, serverVars, step, pending, messages, profile, scriptId,
                   takeResult, outcome, arrivals, failure, escapeVars,
                   markVars>>

\* finally { session.disconnect(); }: an exception of disconnect() replaces
\* the one in flight.
Disconnect(fault) ==
    /\ pc = "finally"
    /\ disconnects' = disconnects + 1
    /\ trace' = Append(trace, "disconnect")
    /\ connected' = FALSE
    /\ listening' = FALSE
    /\ thrown' = IF fault THEN DisconnectFault ELSE thrown
    /\ pc' = "return"
    /\ UNCHANGED <<requestVars, serverVars, step, pending, messages, profile, scriptId,
                   takeResult, outcome, arrivals, failure, escapeVars,
                   markVars>>

\* return [profile, messages], or the exception in flight leaves the function
Return ==
    /\ pc = "return"
    /\ outcome' = IF thrown = NoThrow
                  THEN [state |-> "resolved", reason |-> NoThrow,
                        profile |-> profile, messages |-> messages]
                  ELSE [state |-> "rejected", reason |-> thrown,
                        profile |-> [defined |-> FALSE, val |-> <<>>],
                        messages |-> <<>>]
    /\ pc' = "settled"
    /\ UNCHANGED <<requestVars, serverVars, step, pending, connected, listening, messages,
                   profile, scriptId, takeResult, thrown, disconnects,
                   historyVars, escapeVars, markVars>>

\* the loop of Server over the first n messages: message_log grows by
\* "console.<type>: <args[0].value><br/>", and reading .value of a missing
\* args[0] throws a TypeError
RECURSIVE RenderLog(_, _)
RenderLog(msgs, n) ==
    IF n = 0 THEN [threw |-> FALSE, log |-> <<>>]
    ELSE LET before == RenderLog(msgs, n - 1)
             message == msgs[n]
         IN  IF before.threw THEN before
             ELSE IF message.args = <<>>
             THEN [threw |-> TRUE, log |-> before.log]
             ELSE [threw |-> FALSE,
                   log |-> before.log
                           \o <<"c", "o", "n", "s", "o", "l", "e", ".">>
                           \o message.type \o <<":", " ">>
                           \o message.args[1].value
                           \o <<"<", "b", "r", "/", ">">>]

\* Server after the await of CollectProfile: the rest of the try block, or
\* the catch block
ServerResume ==
    /\ spc = "collect"
    /\ pc = "settled"
    /\ spc' = "done"
    /\ IF outcome.state = "resolved"
       THEN LET rendered == RenderLog(outcome.messages, Len(outcome.messages))
            IN  /\ result' = MarkUpCode(outcome.profile.val, script)
                /\ caught' = rendered.threw
                /\ message_log' = IF rendered.threw
                                  THEN Escape(JsToString(ValueOfUndefined))
                                  ELSE rendered.log
       ELSE /\ caught' = TRUE
            /\ message_log' = Escape(JsToString(outcome.reason))
            /\ UNCHANGED result
    /\ UNCHANGED <<requestVars, script, driverVars, historyVars, escapeVars,
                   markVars>>

Init ==
    /\ ServerInit
    /\ DriverInit
    /\ EscapeIdle
    /\ MarkIdle

Next ==
    \/ \E body \in Scripts : Request(body)
    \/ \E fault \in BOOLEAN : Connect(fault)
    \/ Post
    \/ \E reply \in AllReplies : Reply(reply)
    \/ \E message \in ConsoleMessages : Notify(message)
    \/ \E fault \in BOOLEAN : Disconnect(fault)
    \/ Return
    \/ ServerResume

Spec == Init /\ [][Next]_vars

\* Every command posted gets its reply in the end, and the statements of
\* CollectProfile that are ready to run do run: nothing but an await
\* suspends them.
SpecFair ==
    /\ Spec
    /\ WF_vars(\E reply \in AllReplies : Reply(reply))
    /\ WF_vars(\/ \E fault \in BOOLEAN : Connect(fault)
               \/ Post
               \/ \E fault \in BOOLEAN : Disconnect(fault)
               \/ Return)

----------------------------------------------------------------------------
(* Two requests served by one process *)

\* the variables of the request that is running, as a record
RequestState ==
    [spc |-> spc, script |-> script, result |-> result,
     message_log |-> message_log, caught |-> caught, pc |-> pc,
     step |-> step, pending |-> pending, connected |-> connected,
     listening |-> listening, messages |-> messages, profile |-> profile,
     scriptId |-> scriptId, takeResult |-> takeResult, thrown |-> thrown,
     outcome |-> outcome, disconnects |-> disconnects, trace |-> trace,
     arrivals |-> arrivals, failure |-> failure]

\* messages declared once for the module: the request that resumes goes on
\* with the array the other one was using
SharedMessages(request) == messages

\* let messages = [] is local to each call of CollectProfile: the request
\* that resumes finds its own array
LocalMessages(request) == request.messages

\* The request that is running is suspended at an await, has finished or has
\* not arrived, and the event loop turns to the other request: its locals
\* and its session are the ones in use from here on.
Yield ==
    /\ pc \in {"idle", "await", "settled"}
    /\ cur' = 3 - cur
    /\ parked' = RequestState
    /\ spc' = parked.spc
    /\ script' = parked.script
    /\ result' = parked.result
    /\ message_log' = parked.message_log
    /\ caught' = parked.caught
    /\ pc' = parked.pc
    /\ step' = parked.step
    /\ pending' = parked.pending
    /\ connected' = parked.connected
    /\ listening' = parked.listening
    /\ messages' = LocalMessages(parked)
    /\ profile' = parked.profile
    /\ scriptId' = parked.scriptId
    /\ takeResult' = parked.takeResult
    /\ thrown' = parked.thrown
    /\ outcome' = parked.outcome
    /\ disconnects' = parked.disconnects
    /\ trace' = parked.trace
    /\ arrivals' = parked.arrivals
    /\ failure' = parked.failure
    /\ UNCHANGED <<escapeVars, markVars>>

\* the harvest of the two-request runs: one script profile of each script
HarvestOfBoth ==
    << [scriptId |-> "7", entries |-> <<SampleA>>],
       [scriptId |-> "8", entries |-> <<SampleA>>] >>

\* the replies of the two-request runs: those without a remote error whose
\* harvest, if any, is HarvestOfBoth
RepliesOfBoth ==
    {reply \in AllReplies :
        /\ reply.error = JsNull
        /\ reply.result \in {<<>>, HarvestOfBoth}}

\* the first notification on a session, of a console.log with an argument
NotifyOnce(message) ==
    /\ arrivals = <<>>
    /\ message.args # <<>>
    /\ Notify(message)

\* the steps of two requests: those of the request that is running, with at
\* most one notification on each session, or a switch to the other request
NextTwo ==
    \/ \E body \in Scripts : Request(body)
    \/ \E fault \in BOOLEAN : Connect(fault)
    \/ Post
    \/ \E reply \in RepliesOfBoth : Reply(reply)
    \/ \E message \in ConsoleMessages : NotifyOnce(message)
    \/ \E fault \in BOOLEAN : Disconnect(fault)
    \/ Return
    \/ ServerResume
    \/ Yield

SpecTwo == Init /\ [][NextTwo]_vars

----------------------------------------------------------------------------
(* Properties of CollectProfile and Server, under Spec *)

Settled == pc = "settled"
Resolved == Settled /\ outcome.state = "resolved"
Rejected == Settled /\ outcome.state = "rejected"

\* the index of the first occurrence of name in trace, 0 when there is none
TraceIndex(name) ==
    IF \E i \in 1..Len(trace) : trace[i] = name
    THEN CHOOSE i \in 1..Len(trace) :
           trace[i] = name /\ \A j \in 1..(i - 1) : trace[j] # name
    ELSE 0

\* a command (not connect) failed
CommandFailed == failure.failed /\ failure.reason # ConnectFault

\* C1: whatever the outcome of CollectProfile (every command succeeds, a
\* command reports a remote error, the script throws or fails to compile,
\* connect() faults), session.disconnect() has been called exactly once when
\* CollectProfile settles, and it is never called twice.
C1_DisconnectExactlyOnce ==
    /\ disconnects <= 1
    /\ Settled => disconnects = 1
    /\ Settled => Len(SelectSeq(trace, LAMBDA t : t = "disconnect")) = 1

\* a request that rejected because a command failed, disconnected once
C1_Witness ==
    /\ Rejected
    /\ CommandFailed
    /\ disconnects = 1

\* the steps of a run in which nothing fails
FullSequence ==
    << "connect", "Runtime.enable", "Profiler.enable",
       "Profiler.startTypeProfile", "Runtime.compileScript", "on",
       "Runtime.runScript", "HeapProfiler.collectGarbage",
       "Profiler.takeTypeProfile", "Profiler.stopTypeProfile",
       "Profiler.disable", "Runtime.disable", "disconnect" >>

\* C2: on a run in which no command (and not connect) fails, the steps are
\* issued once each in the order of FullSequence; and at no time are two
\* commands awaiting their replies.
C2_StepsInOrder ==
    /\ Len(pending) <= 1
    /\ (Settled /\ ~failure.failed) => trace = FullSequence

\* a run without failure has settled
C2_Witness ==
    /\ Resolved
    /\ ~failure.failed
    /\ Len(trace) = Len(FullSequence)

\* C3: when the reply to a command carries a remote error or
\* exceptionDetails, no further command is issued, only disconnect follows,
\* and CollectProfile rejects with that error or that description.
C3_AbortWithThatReason ==
    (Settled /\ CommandFailed) =>
        /\ trace = SubSeq(trace, 1, failure.at) \o <<"disconnect">>
        /\ outcome.state = "rejected"
        /\ outcome.reason = failure.reason

\* C4: CollectProfile returns a complete pair (a defined profile and the
\* log) or rejects and returns nothing; and when Server shows error text as
\* the console output, the annotated result it renders is empty.
C4_NoPartialResults ==
    /\ Resolved => outcome.profile.defined
    /\ Rejected => (~outcome.profile.defined /\ outcome.messages = <<>>)
    /\ (spc = "done" /\ caught) => result = <<>>

\* C5: the profile CollectProfile returns is the harvested script profiles
\* whose scriptId is the one the compile step returned, in harvested order;
\* the others are excluded and Server annotates none of them.
C5_ScriptIsolation ==
    LET own == SelectSeq(takeResult, LAMBDA x : x.scriptId = scriptId)
    IN  /\ profile.defined => profile.val = own
        /\ Resolved => (outcome.profile.defined /\ outcome.profile.val = own)
        /\ (spc = "done" /\ outcome.state = "resolved") =>
               result = MarkUpCode(own, script)

\* a script profile of another script was harvested and left out
C5_Witness ==
    /\ Resolved
    /\ Len(takeResult) = 2
    /\ takeResult[1].scriptId # scriptId
    /\ Len(outcome.profile.val) = 1

\* the messages of the notifications that arrived in a phase of the set
ArrivedIn(phases) ==
    LET kept == SelectSeq(arrivals, LAMBDA a : a.phase \in phases)
    IN  [i \in 1..Len(kept) |-> kept[i].message]

ListenerBeforeRun ==
    TraceIndex("Runtime.runScript") > 0 =>
        /\ TraceIndex("on") > 0
        /\ TraceIndex("on") < TraceIndex("Runtime.runScript")

\* C6 as claimed: the listener is registered before Runtime.runScript is
\* issued and every notification delivered on the session is in messages,
\* once, in arrival order.
C6_EveryNotificationLogged ==
    /\ ListenerBeforeRun
    /\ messages = ArrivedIn({"early", "run", "late"})

\* C6 as amended: the listener is registered before Runtime.runScript is
\* issued; messages holds, once each and in arrival order, the
\* notifications delivered after the listener was registered (while
\* Runtime.runScript or any later command is awaited), and none of those
\* delivered before; a resolved CollectProfile returns that sequence.
C6_LoggedSinceRegistration ==
    /\ ListenerBeforeRun
    /\ messages = ArrivedIn({"run", "late"})
    /\ Resolved => outcome.messages = messages

\* two different notifications were logged in arrival order, the second
\* while a command after Runtime.runScript was awaited
C6_Witness ==
    /\ Len(arrivals) = 2
    /\ arrivals[1].phase = "run"
    /\ arrivals[2].phase = "late"
    /\ arrivals[1].message # arrivals[2].message
    /\ messages = <<arrivals[1].message, arrivals[2].message>>

\* session.disconnect() threw
DisconnectFaulted == disconnects > 0 /\ thrown = DisconnectFault

\* C14: every failure is surfaced: when a command failed, CollectProfile
\* rejects and its reason is that command's failure, also when disconnect()
\* faults afterwards in the finally block; and a fault of connect() or of
\* disconnect() always makes CollectProfile reject.
C14_EveryFailureSurfaced ==
    Settled =>
        /\ CommandFailed =>
               (outcome.state = "rejected" /\ outcome.reason = failure.reason)
        /\ (failure.failed \/ DisconnectFaulted) => outcome.state = "rejected"

\* C15: disconnect() is called only once the command sequence is over: never
\* while a command awaits its reply, and no step is issued after it; and as
\* long as the reply to an awaited command (Runtime.runScript, say) has not
\* arrived, CollectProfile stays suspended at that await and disconnect() is
\* not called, whatever else happens: there is no timeout.
C15_DisconnectAfterSequence ==
    /\ [](/\ pending # <<>> => (disconnects = 0 /\ pc = "await")
          /\ disconnects > 0 => pc \in {"return", "settled"}
          /\ \A i \in 1..Len(trace) : trace[i] = "disconnect" => i = Len(trace))
    /\ [][(pc = "await" /\ pending' = pending) =>
              /\ pc' = "await"
              /\ disconnects' = 0
              /\ trace' = trace]_vars

\* CollectProfile is suspended at the await of Runtime.runScript, a
\* notification has arrived meanwhile, and disconnect() has not been called
C15_Witness ==
    /\ pc = "await"
    /\ pending # <<>>
    /\ Commands[Head(pending)] = "Runtime.runScript"
    /\ arrivals # <<>>
    /\ arrivals[Len(arrivals)].phase = "run"
    /\ disconnects = 0

\* the commands issued so far, in order
IssuedCommands ==
    SelectSeq(trace, LAMBDA t : \E k \in 1..NumCommands : Commands[k] = t)

\* no command has been issued twice
NeverLoops ==
    LET issued == IssuedCommands
    IN  \A i, j \in 1..Len(issued) : issued[i] = issued[j] => i = j

\* C16 as claimed: when every command issued gets a reply in the end, every
\* request settles in the end, having called disconnect() before it resolves
\* or rejects; it issues at most nine commands and never loops.
C16_AtMostNineCommands ==
    /\ (pc = "connect") ~> Settled
    /\ [](Settled => (disconnects = 1 /\ outcome.state \in {"resolved", "rejected"}))
    /\ [](Len(IssuedCommands) <= 9 /\ NeverLoops)

\* C16 as amended: when every command issued gets a reply in the end, every
\* request settles in the end, having called disconnect() before it resolves
\* or rejects; it issues at most the ten commands of the sequence, none of
\* them twice.
C16_TerminatesWithinTenCommands ==
    /\ (pc = "connect") ~> Settled
    /\ [](Settled => (disconnects = 1 /\ outcome.state \in {"resolved", "rejected"}))
    /\ [](Len(IssuedCommands) <= NumCommands /\ NeverLoops)
    /\ Len(Commands) = 10

\* a request issued all ten commands, disconnected and resolved
C16_Witness ==
    /\ Resolved
    /\ disconnects = 1
    /\ Len(IssuedCommands) = 10
    /\ trace[Len(trace)] = "disconnect"

\* the notifications a request's own session delivered once its listener
\* was registered, in arrival order
OwnLog(request) ==
    LET kept == SelectSeq(request.arrivals, LAMBDA a : a.phase \in {"run", "late"})
    IN  [i \in 1..Len(kept) |-> kept[i].message]

\* the steps of a request are a run of the command sequence of its own: a
\* prefix of FullSequence, cut short by disconnect if something failed
OwnSequence(request) ==
    LET steps == request.trace
        n == Len(steps)
    IN  \/ steps = SubSeq(FullSequence, 1, n)
        \/ /\ n >= 1
           /\ steps[n] = "disconnect"
           /\ SubSeq(steps, 1, n - 1) = SubSeq(FullSequence, 1, n - 1)

\* what a request holds and how it settles follows from what happened on its
\* own session
OwnsItsState(request) ==
    /\ request.messages = OwnLog(request)
    /\ request.profile.defined =>
           request.profile.val =
               SelectSeq(request.takeResult,
                         LAMBDA x : x.scriptId = request.scriptId)
    /\ OwnSequence(request)
    /\ Len(request.pending) <= 1
    /\ request.disconnects <= 1
    /\ request.pc = "settled" =>
           /\ request.disconnects = 1
           /\ (request.outcome.state = "resolved") <=> (request.thrown = NoThrow)
           /\ request.outcome.state = "resolved" =>
                  /\ ~request.failure.failed
                  /\ request.outcome.profile = request.profile
                  /\ request.outcome.messages = OwnLog(request)
           /\ request.outcome.state = "rejected" =>
                  request.outcome.reason = request.thrown

\* C17: two requests that interleave at their suspension points each own
\* their session, script identifier, profile and log: a notification
\* delivered to the listener of one is appended to the log of that one only,
\* and a step of one request leaves everything the other holds, and so its
\* outcome, as it was; switching between them changes nothing either holds.
C17_RequestsIsolated ==
    /\ [](OwnsItsState(RequestState) /\ OwnsItsState(parked))
    /\ [][/\ cur' = cur => parked' = parked
          /\ cur' # cur => (parked' = RequestState /\ RequestState' = parked)]_vars

\* both requests are suspended with their listeners registered, under
\* different script identifiers; one has logged a notification, the other
\* has logged none
C17_Witness ==
    /\ pc = "await"
    /\ parked.pc = "await"
    /\ listening
    /\ parked.listening
    /\ scriptId # parked.scriptId
    /\ Len(messages) = 1
    /\ parked.messages = <<>>
    /\ parked.arrivals = <<>>

----------------------------------------------------------------------------
(* Escape applied to one string *)

\* the characters of the enumerated strings: one that Escape replaces by an
\* entity, one that its line breaks contain, CR, LF and a plain one
EscapeAlphabet == {"&", "<", CR, LF, "a"}

\* strings that hold replacement text of Escape literally, strings with the
\* other characters Escape replaces, and a string that holds marker HTML
LongerStrings ==
    { <<"&", "a", "m", "p", ";">>, <<"&", "l", "t", ";">>,
      <<"&", "n", "b", "s", "p", ";">>, <<"<", "b", "r", "/", ">">>,
      <<"&", "q", "u", "o", "t", ";">>,
      <<" ", " ", ">", "\"", "&", "\"">>,
      <<"a", CR, LF, "a", LF, " ", CR>>,
      <<"a">> \o SpanClose }

EscapeInputs == SeqsUpTo(EscapeAlphabet, MaxLen) \cup LongerStrings

EscapeInit ==
    /\ ServerInit
    /\ DriverInit
    /\ MarkIdle
    /\ epc = "start"
    /\ string \in EscapeInputs
    /\ escaped = <<>>

DoEscape ==
    /\ epc = "start"
    /\ escaped' = Escape(string)
    /\ epc' = "done"
    /\ UNCHANGED <<string, requestVars, serverVars, driverVars, historyVars, markVars>>

EscapeNext == DoEscape

SpecEscape == EscapeInit /\ [][EscapeNext]_vars

----------------------------------------------------------------------------
(* MarkUpCode applied to one profile and source *)

SourceAlphabet == {"a", CR, LF}

ExampleSource == <<"l", "e", "t", " ", "x", " ", "=", " ", "1", ";">>
ExampleProfile ==
    << [scriptId |-> "7",
        entries |-> << [offset |-> 4,
                        types |-> << [name |-> <<"n", "u", "m", "b", "e", "r">>] >>] >>] >>

Sources == SeqsUpTo(SourceAlphabet, MaxSourceLen)

TypeLists ==
    { << >>,
      << [name |-> <<"n">>] >>,
      << [name |-> <<"s">>], [name |-> <<"n">>] >> }

\* type samples whose offset is a valid index of src or its length
SamplesFor(src) == [offset : 0..Len(src), types : TypeLists]

ProfileEntry(samples) == [scriptId |-> "7", entries |-> samples]

\* the profiles made of at most MaxSamples samples, all in one script
\* profile or the first sample in a script profile of its own
ProfilesFor(src) ==
    {<<>>} \cup
    UNION { IF flat = <<>> THEN {<<ProfileEntry(flat)>>}
            ELSE { <<ProfileEntry(flat)>>,
                   <<ProfileEntry(<<Head(flat)>>), ProfileEntry(Tail(flat))>> } :
            flat \in SeqsUpTo(SamplesFor(src), MaxSamples) }

MarkInit ==
    /\ ServerInit
    /\ DriverInit
    /\ EscapeIdle
    /\ mpc = "start"
    /\ \/ /\ source \in Sources
          /\ in_profile \in ProfilesFor(source)
       \/ /\ source = ExampleSource
          /\ in_profile = ExampleProfile
    /\ entries = <<>>
    /\ next_entry = 0
    /\ walk = [result |-> <<>>, cursor |-> 0]
    /\ copies = <<>>

\* flatten, sort, result = "", cursor = 0
MarkStart ==
    /\ mpc = "start"
    /\ entries' = SortEntries(FlattenEntries(in_profile))
    /\ next_entry' = 1
    /\ walk' = [result |-> <<>>, cursor |-> 0]
    /\ mpc' = "loop"
    /\ UNCHANGED <<source, in_profile, copies, requestVars, serverVars, driverVars, historyVars,
                   escapeVars>>

\* one iteration of for (let entry of entries)
MarkLoop ==
    /\ mpc = "loop"
    /\ next_entry <= Len(entries)
    /\ walk' = MarkEntry(walk, source, entries[next_entry])
    /\ copies' = Append(copies, [cursor |-> walk.cursor,
                                 up_to |-> entries[next_entry].offset])
    /\ next_entry' = next_entry + 1
    /\ UNCHANGED <<mpc, source, in_profile, entries, requestVars, serverVars, driverVars,
                   historyVars, escapeVars>>

\* CopySourceUpTo(source.length); return result
MarkFinish ==
    /\ mpc = "loop"
    /\ next_entry > Len(entries)
    /\ walk' = CopySourceUpTo(walk, source, Len(source))
    /\ copies' = Append(copies, [cursor |-> walk.cursor,
                                 up_to |-> Len(source)])
    /\ mpc' = "done"
    /\ UNCHANGED <<source, in_profile, entries, next_entry, requestVars, serverVars,
                   driverVars, historyVars, escapeVars>>

MarkNext == MarkStart \/ MarkLoop \/ MarkFinish

SpecMarkUp == MarkInit /\ [][MarkNext]_vars

----------------------------------------------------------------------------
(* Properties of MarkUpCode, under SpecMarkUp *)

MarkDone == mpc = "done"

\* the samples of a profile in input order
RECURSIVE Flattened(_)
Flattened(p) ==
    IF p = <<>> THEN <<>> ELSE Head(p).entries \o Flattened(Tail(p))

\* the samples whose offset is o or more, by ascending offset, those of one
\* offset in input order
RECURSIVE ByOffsetFrom(_, _, _)
ByOffsetFrom(samples, o, last) ==
    IF o > last THEN <<>>
    ELSE SelectSeq(samples, LAMBDA x : x.offset = o)
         \o ByOffsetFrom(samples, o + 1, last)

\* one marker: the highlighted label of a type name and a space
Marker(name) == SpanOpen \o <<">">> \o name \o SpanClose \o <<" ">>

RECURSIVE Markers(_)
Markers(types) ==
    IF types = <<>> THEN <<>>
    ELSE Marker(Head(types).name) \o Markers(Tail(types))

RECURSIVE MarkersOf(_)
MarkersOf(samples) ==
    IF samples = <<>> THEN <<>>
    ELSE Markers(Head(samples).types) \o MarkersOf(Tail(samples))

\* Escape(src[cursor, s1.offset)) + markers(s1) + ... + Escape(src[sn.offset, len))
RECURSIVE Interleaved(_, _, _)
Interleaved(src, sorted, cursor) ==
    IF sorted = <<>> THEN Escape(SubSeq(src, cursor + 1, Len(src)))
    ELSE Escape(SubSeq(src, cursor + 1, Head(sorted).offset))
         \o Markers(Head(sorted).types)
         \o Interleaved(src, Tail(sorted), Head(sorted).offset)

\* the output of the example: "let&nbsp;", a marker labeled number,
\* "x&nbsp;=&nbsp;1;"
ExampleOutput ==
    <<"l", "e", "t", "&", "n", "b", "s", "p", ";">>
    \o Marker(<<"n", "u", "m", "b", "e", "r">>)
    \o <<"x", "&", "n", "b", "s", "p", ";", "=", "&", "n", "b", "s", "p", ";",
         "1", ";">>

\* C7: MarkUpCode returns the escaped pieces of the source between the
\* offsets of the samples taken in offset order, each sample's markers (one
\* per type name, in the order of its types) between the piece before its
\* offset and the piece after; the example of the specification gives
\* ExampleOutput.
C7_InterleavedOutput ==
    MarkDone =>
        /\ walk.result =
             Interleaved(source,
                         ByOffsetFrom(Flattened(in_profile), 0, Len(source)), 0)
        /\ (source = ExampleSource /\ in_profile = ExampleProfile) =>
               walk.result = ExampleOutput

\* two samples handed over in descending offset order, both with markers,
\* the second offset inside the source
C7_Witness ==
    /\ MarkDone
    /\ Len(Flattened(in_profile)) = 2
    /\ Flattened(in_profile)[1].offset = 2
    /\ Flattened(in_profile)[2].offset = 1
    /\ Len(Flattened(in_profile)[1].types) = 1
    /\ Len(Flattened(in_profile)[2].types) = 2
    /\ Len(source) = 2

\* the number of type names of all samples
RECURSIVE TypeCount(_)
TypeCount(samples) ==
    IF samples = <<>> THEN 0
    ELSE Len(Head(samples).types) + TypeCount(Tail(samples))

\* some sample's offset lies between the CR and the LF of a CR+LF pair
SplitsCrLf(src, samples) ==
    \E i \in 1..Len(samples) :
        LET o == samples[i].offset
        IN  o >= 1 /\ o < Len(src) /\ src[o] = CR /\ src[o + 1] = LF

\* C8 as claimed: the output is at least as long as the escaped source, and
\* as long exactly when the flattened sample sequence is empty.
C8_LengthEqualIffNoSamples ==
    MarkDone =>
        /\ Len(walk.result) >= Len(Escape(source))
        /\ (Len(walk.result) = Len(Escape(source)))
             <=> (Flattened(in_profile) = <<>>)

\* C8 as amended: the output is at least as long as the escaped source, and
\* as long exactly when no sample carries a type name and no sample offset
\* lies between the CR and the LF of a CR+LF pair (so for an empty sample
\* sequence, and also for samples whose types are all empty).
C8_LengthEqualIffNoMarkers ==
    MarkDone =>
        /\ Len(walk.result) >= Len(Escape(source))
        /\ (Len(walk.result) = Len(Escape(source)))
             <=> /\ TypeCount(Flattened(in_profile)) = 0
                 /\ ~SplitsCrLf(source, Flattened(in_profile))

\* a sample without type names: the lengths are equal though the sample
\* sequence is not empty
C8_Witness ==
    /\ MarkDone
    /\ Flattened(in_profile) # <<>>
    /\ Len(source) > 0
    /\ Len(walk.result) = Len(Escape(source))

\* the labels of the markers of an output text, from index i on, in order
RECURSIVE MarkerLabelsFrom(_, _)
MarkerLabelsFrom(text, i) ==
    IF i + Len(SpanOpen) > Len(text) THEN <<>>
    ELSE IF /\ text[i] = "<"
            /\ text[i + 1] = "s"
            /\ SubSeq(text, i, i + Len(SpanOpen) - 1) = SpanOpen
         THEN LET from == i + Len(SpanOpen) + 1
                  close == CHOOSE j \in from..Len(text) :
                             /\ text[j] = "<"
                             /\ \A k \in from..(j - 1) : text[k] # "<"
              IN  <<SubSeq(text, from, close - 1)>>
                  \o MarkerLabelsFrom(text, close + Len(SpanClose) + 1)
         ELSE MarkerLabelsFrom(text, i + 1)

\* the type names of samples, sample by sample
RECURSIVE TypeNames(_)
TypeNames(samples) ==
    IF samples = <<>> THEN <<>>
    ELSE [i \in 1..Len(Head(samples).types) |-> Head(samples).types[i].name]
         \o TypeNames(Tail(samples))

\* C9: the labels of the markers of the output are the type names of the
\* samples by ascending offset, samples of one offset keeping their input
\* order; and the markers of the samples at offset 0 stand, in input order,
\* at the very start of the output, before any character of the source.
C9_TiesKeepInputOrder ==
    MarkDone =>
        LET flat == Flattened(in_profile)
            lead == MarkersOf(SelectSeq(flat, LAMBDA x : x.offset = 0))
        IN  /\ MarkerLabelsFrom(walk.result, 1)
                 = TypeNames(ByOffsetFrom(flat, 0, Len(source)))
            /\ SubSeq(walk.result, 1, Len(lead)) = lead

\* two samples at offset 0 with different type names, ahead of source text
C9_Witness ==
    /\ MarkDone
    /\ Len(source) > 0
    /\ Len(Flattened(in_profile)) = 2
    /\ Flattened(in_profile)[1].offset = 0
    /\ Flattened(in_profile)[2].offset = 0
    /\ TypeNames(<<Flattened(in_profile)[1]>>) = << <<"s">>, <<"n">> >>
    /\ TypeNames(<<Flattened(in_profile)[2]>>) = << <<"n">> >>
    /\ MarkerLabelsFrom(walk.result, 1) = << <<"s">>, <<"n">>, <<"n">> >>

\* the indices of src (from 0) that source.substring(start, end) copies
CopiedBySubstring(src, start, end) ==
    LET a == Clamp(start, Len(src))
        b == Clamp(end, Len(src))
        lo == IF a <= b THEN a ELSE b
        hi == IF a <= b THEN b ELSE a
    IN  [i \in 1..(hi - lo) |-> lo + i - 1]

\* the indices of src copied by the first n calls of CopySourceUpTo
RECURSIVE CopiedIndices(_, _, _)
CopiedIndices(src, calls, n) ==
    IF n = 0 THEN <<>>
    ELSE CopiedIndices(src, calls, n - 1)
         \o CopiedBySubstring(src, calls[n].cursor, calls[n].up_to)

\* C11: once sorted, the offsets of the samples never decrease; the cursor
\* never decreases from one copy to the next and ends at the length of the
\* source; and the indices of the source are copied in increasing order,
\* none twice, and at the end every index 0..len-1 has been copied.
C11_MonotoneWalk ==
    LET copied == CopiedIndices(source, copies, Len(copies))
    IN  /\ mpc # "start" =>
               \A i, j \in 1..Len(entries) :
                   i < j => entries[i].offset <= entries[j].offset
        /\ \A i \in 1..Len(copies) :
               /\ copies[i].cursor <= copies[i].up_to
               /\ i > 1 => copies[i].cursor = copies[i - 1].up_to
        /\ copies # <<>> => walk.cursor = copies[Len(copies)].up_to
        /\ \A i \in 1..Len(copied) : copied[i] = i - 1
        /\ MarkDone =>
               /\ walk.cursor = Len(source)
               /\ Len(copied) = Len(source)

\* two samples were handed over out of offset order and the walk copied
\* a source of two characters in three pieces
C11_Witness ==
    /\ MarkDone
    /\ Len(source) = 2
    /\ Len(copies) = 3
    /\ FlattenEntries(in_profile)[1].offset > FlattenEntries(in_profile)[2].offset
    /\ copies[1].up_to = 1
    /\ copies[2].up_to = 2
    /\ CopiedIndices(source, copies, 3) = <<0, 1>>

\* the samples placed at the very end of the source, in input order
SamplesAtEnd == SelectSeq(Flattened(in_profile), LAMBDA x : x.offset = Len(source))

\* the samples placed before the end of the source, in input order
SamplesBeforeEnd == SelectSeq(Flattened(in_profile), LAMBDA x : x.offset < Len(source))

\* every entry of the loop has been handled
LoopOver == \/ MarkDone
            \/ mpc = "loop" /\ next_entry > Len(entries)

\* C13: a sample whose offset is the length of the source is handled without
\* error: the whole escaped source (interleaved with the markers of earlier
\* samples, if any) comes first, the markers of the samples at the end come
\* after it, and the final copy adds nothing: the output is already complete
\* when the loop is over, and the last copy is the empty range at the end.
C13_SampleAtEnd ==
    (LoopOver /\ SamplesAtEnd # <<>>) =>
        /\ walk.result =
               Interleaved(source,
                           ByOffsetFrom(SamplesBeforeEnd, 0, Len(source)), 0)
               \o MarkersOf(SamplesAtEnd)
        /\ SamplesBeforeEnd = <<>> =>
               walk.result = Escape(source) \o MarkersOf(SamplesAtEnd)
        /\ walk.cursor = Len(source)
        /\ MarkDone =>
               copies[Len(copies)] =
                   [cursor |-> Len(source), up_to |-> Len(source)]

\* two samples with type names sit at the end of a source of two characters
\* and the markup is finished
C13_Witness ==
    /\ MarkDone
    /\ Len(source) = 2
    /\ Len(SamplesAtEnd) = 2
    /\ SamplesBeforeEnd = <<>>
    /\ TypeCount(SamplesAtEnd) = 3
    /\ walk.result = Escape(source) \o MarkersOf(SamplesAtEnd)

\* a marker starts at index i of text
MarkerAt(text, i) ==
    /\ i + Len(SpanOpen) <= Len(text)
    /\ text[i] = "<"
    /\ text[i + 1] = "s"
    /\ SubSeq(text, i, i + Len(SpanOpen) - 1) = SpanOpen

\* text from index i on with every marker deleted: the opening tag, the
\* label, the closing tag and the space behind it
RECURSIVE StripMarkersFrom(_, _)
StripMarkersFrom(text, i) ==
    IF \A j \in i..Len(text) : ~MarkerAt(text, j)
    THEN SubSeq(text, i, Len(text))
    ELSE LET open == CHOOSE j \in i..Len(text) :
                       /\ MarkerAt(text, j)
                       /\ \A k \in i..(j - 1) : ~MarkerAt(text, k)
             from == open + Len(SpanOpen) + 1
             close == CHOOSE j \in from..Len(text) :
                        /\ text[j] = "<"
                        /\ \A k \in from..(j - 1) : text[k] # "<"
         IN  SubSeq(text, i, open - 1)
             \o StripMarkersFrom(text, close + Len(SpanClose) + 1)

\* samples with their types taken away
WithoutTypes(samples) ==
    [i \in 1..Len(samples) |-> [offset |-> samples[i].offset, types |-> <<>>]]

\* the source escaped piece by piece, cut at the offsets of the samples
EscapedPieces(src, samples) ==
    Interleaved(src, ByOffsetFrom(WithoutTypes(samples), 0, Len(src)), 0)

\* C18 as claimed: deleting the markers from the output of MarkUpCode gives
\* exactly Escape(Source), whatever the samples, also when an offset falls
\* between the CR and the LF of a CR+LF pair.
C18_StrippedIsEscapedSource ==
    MarkDone => StripMarkersFrom(walk.result, 1) = Escape(source)

\* C18 as amended: deleting the markers from the output gives the source
\* escaped piece by piece, cut at the sample offsets; that is exactly
\* Escape(Source) if and only if no offset falls between the CR and the LF
\* of a CR+LF pair.
C18_StrippedIsEscapedPieces ==
    MarkDone =>
        LET stripped == StripMarkersFrom(walk.result, 1)
            flat == Flattened(in_profile)
        IN  /\ stripped = EscapedPieces(source, flat)
            /\ (stripped = Escape(source)) <=> ~SplitsCrLf(source, flat)

\* a source with a line break was marked up with three markers at two
\* offsets, and without them the output is the escaped source
C18_Witness ==
    /\ MarkDone
    /\ source = <<"a", LF>>
    /\ TypeCount(Flattened(in_profile)) = 3
    /\ Flattened(in_profile)[1].offset # Flattened(in_profile)[2].offset
    /\ StripMarkersFrom(walk.result, 1) = <<"a", "<", "b", "r", "/", ">">>

----------------------------------------------------------------------------
(* Properties of Escape, under SpecEscape *)

EscapeDone == epc = "done"

\* pattern occurs in text
Contains(text, pattern) ==
    \E i \in 1..(Len(text) - Len(pattern) + 1) :
        SubSeq(text, i, i + Len(pattern) - 1) = pattern

\* the text holds no marker HTML: neither the opening nor the closing tag
\* of a marker of PrintType
NoMarkerHtml(text) ==
    /\ ~Contains(text, SpanOpen)
    /\ ~Contains(text, SpanClose)

NoCrLf(text) == ~Contains(text, <<CR, LF>>)

\* the reverse substitutions, the last pair of Escape undone first
Unescape(text) ==
    LET u7 == ReplaceAll(text, <<"&", "q", "u", "o", "t", ";">>, <<"\"">>)
        u6 == ReplaceAll(u7, <<"<", "b", "r", "/", ">">>, <<LF>>)
        u5 == ReplaceAll(u6, <<"<", "b", "r", "/", ">">>, <<CR, LF>>)
        u4 == ReplaceAll(u5, <<"&", "g", "t", ";">>, <<">">>)
        u3 == ReplaceAll(u4, <<"&", "l", "t", ";">>, <<"<">>)
        u2 == ReplaceAll(u3, <<"&", "n", "b", "s", "p", ";">>, <<" ">>)
    IN  ReplaceAll(u2, <<"&", "a", "m", "p", ";">>, <<"&">>)

\* C10 as claimed: for a string without marker HTML, the reverse
\* substitutions applied to its Escape result give the string back, and no
\* other such string has the same Escape result.
C10_EscapeReversible ==
    (EscapeDone /\ NoMarkerHtml(string)) =>
        /\ Unescape(escaped) = string
        /\ \A t \in EscapeInputs :
               (t # string /\ Escape(t) = escaped) => ~NoMarkerHtml(t)

\* C10 as amended: for a string without marker HTML and without a CR+LF
\* pair, the reverse substitutions applied to its Escape result give the
\* string back, and no other such string has the same Escape result.
C10_EscapeReversibleNoCrLf ==
    (EscapeDone /\ NoMarkerHtml(string) /\ NoCrLf(string)) =>
        /\ Unescape(escaped) = string
        /\ \A t \in EscapeInputs :
               (t # string /\ Escape(t) = escaped)
                   => ~(NoMarkerHtml(t) /\ NoCrLf(t))

\* a string with a bare CR, a bare LF and characters Escape replaces came
\* back from its escaped form
C10_Witness ==
    /\ EscapeDone
    /\ string = <<CR, "&", LF>>
    /\ escaped = <<CR, "&", "a", "m", "p", ";", "<", "b", "r", "/", ">">>
    /\ Unescape(escaped) = string

\* what one left-to-right pass writes for the character at index i of text,
\* and how many characters of text it consumes
SinglePassAt(text, i) ==
    LET c == text[i]
    IN  IF c = "&" THEN [out |-> <<"&", "a", "m", "p", ";">>, used |-> 1]
        ELSE IF c = " " THEN [out |-> <<"&", "n", "b", "s", "p", ";">>, used |-> 1]
        ELSE IF c = "<" THEN [out |-> <<"&", "l", "t", ";">>, used |-> 1]
        ELSE IF c = ">" THEN [out |-> <<"&", "g", "t", ";">>, used |-> 1]
        ELSE IF c = CR /\ i < Len(text) /\ text[i + 1] = LF
             THEN [out |-> <<"<", "b", "r", "/", ">">>, used |-> 2]
        ELSE IF c = LF THEN [out |-> <<"<", "b", "r", "/", ">">>, used |-> 1]
        ELSE IF c = "\"" THEN [out |-> <<"&", "q", "u", "o", "t", ";">>, used |-> 1]
        ELSE [out |-> <<c>>, used |-> 1]

\* the simultaneous substitution of text from index i on, in a single pass
RECURSIVE SinglePassFrom(_, _)
SinglePassFrom(text, i) ==
    IF i > Len(text) THEN <<>>
    ELSE LET step1 == SinglePassAt(text, i)
         IN  step1.out \o SinglePassFrom(text, i + step1.used)

\* C12: Escape applies its seven substitutions in the order &, space, <, >,
\* CR+LF, LF, double quote, each to every occurrence, and its result is the
\* single-pass simultaneous substitution of the input: nothing a later
\* substitution inserts is escaped again.
C12_SinglePassEquivalent ==
    /\ [n \in 1..Len(Substitutions) |-> Substitutions[n][1]]
           = << <<"&">>, <<" ">>, <<"<">>, <<">">>, <<CR, LF>>, <<LF>>, <<"\"">> >>
    /\ EscapeDone => escaped = SinglePassFrom(string, 1)

\* an input with a CR+LF pair, a bare LF, a space and a bare CR was escaped
C12_Witness ==
    /\ EscapeDone
    /\ string = <<"a", CR, LF, "a", LF, " ", CR>>
    /\ escaped = <<"a", "<", "b", "r", "/", ">", "a", "<", "b", "r", "/", ">",
                   "&", "n", "b", "s", "p", ";", CR>>

====
